---- MODULE Spec2Model ----
(***************************************************************************)
(* Model of src/crawl.js: the polling frontier scheduler `crawl`, the      *)
(* per-file `callback` (fetch, blank-page heuristic, publish) and `main`.  *)
(*                                                                         *)
(* Strings are sequences of one-character strings, so that trim, the       *)
(* /\s+/g replacement and the /[a-zA-Z]{3,}/ match are computed.  A path   *)
(* is a sequence of tokens ("/r", "/a", "/x", ".html") whose concatenation *)
(* is the path string; endsWith looks at the last token.                   *)
(***************************************************************************)
EXTENDS Integers, Sequences, FiniteSets, TLC

\* ------------------------------------------------------------------ bounds
MaxConcurrent == 2      \* crawl is called with concurrent in 1..MaxConcurrent
MaxNodes == 2           \* child nodes of <body> in the documents classified

\* --------------------------------------------------------- program constants
BlankTextLimit == 20    \* cleanText.length < 20
AlphaRunLen == 3        \* /[a-zA-Z]{3,}/

\* ------------------------------------------------------------------ strings
Whitespace == {" ", "\n", "\t"}

Alpha == {"a","b","c","d","e","f","g","h","i","j","k","l","m","n","o","p","q",
          "r","s","t","u","v","w","x","y","z","A","B","C","D","E","F","G","H",
          "I","J","K","L","M","N","O","P","Q","R","S","T","U","V","W","X","Y","Z"}

RECURSIVE TrimStart(_)
TrimStart(s) ==
  IF s # <<>> /\ Head(s) \in Whitespace THEN TrimStart(Tail(s)) ELSE s

RECURSIVE TrimEnd(_)
TrimEnd(s) ==
  IF s # <<>> /\ s[Len(s)] \in Whitespace
  THEN TrimEnd(SubSeq(s, 1, Len(s) - 1)) ELSE s

\* String.prototype.trim
Trim(s) == TrimEnd(TrimStart(s))

\* s.replace(/\s+/g, ' '): every maximal run of whitespace becomes one space
RECURSIVE ReplaceWsRuns(_)
ReplaceWsRuns(s) ==
  IF s = <<>> THEN <<>>
  ELSE IF Head(s) \in Whitespace
       THEN <<" ">> \o ReplaceWsRuns(TrimStart(s))
       ELSE <<Head(s)>> \o ReplaceWsRuns(Tail(s))

\* s.match(/[a-zA-Z]{3,}/): scan for AlphaRunLen letters in a row
RECURSIVE MatchAlphaRun(_, _)
MatchAlphaRun(s, run) ==
  IF run >= AlphaRunLen THEN TRUE
  ELSE IF s = <<>> THEN FALSE
  ELSE IF Head(s) \in Alpha THEN MatchAlphaRun(Tail(s), run + 1)
  ELSE MatchAlphaRun(Tail(s), 0)

\* ---------------------------------------------------------------- documents
\* A parsed document is [hasBody, nodes]: whether document.body is non-null,
\* and the child nodes of <body>, each a text node or an element holding text.
TextNode(t) == [kind |-> "text", tag |-> "", data |-> t]
Element(tag, t) == [kind |-> "elem", tag |-> tag, data |-> t]
Document(nodes) == [hasBody |-> TRUE, nodes |-> nodes]

RECURSIVE TextContentOf(_)
TextContentOf(nodes) ==
  IF nodes = <<>> THEN <<>> ELSE Head(nodes).data \o TextContentOf(Tail(nodes))

SerializeNode(n) ==
  IF n.kind = "text" THEN n.data
  ELSE <<"<", n.tag, ">">> \o n.data \o <<"<", "/", n.tag, ">">>

RECURSIVE InnerHTMLOf(_)
InnerHTMLOf(nodes) ==
  IF nodes = <<>> THEN <<>>
  ELSE SerializeNode(Head(nodes)) \o InnerHTMLOf(Tail(nodes))

\* body.children: the element children only
ChildrenOf(nodes) == SelectSeq(nodes, LAMBDA n : n.kind = "elem")

\* the blank-page test without the test of line 110 (a single empty child)
IsBlankPage_NoEmptyChild(dom) ==
  LET body == dom.hasBody
      bodyText == IF body THEN Trim(TextContentOf(dom.nodes)) ELSE <<>>
      bodyHTML == IF body THEN Trim(InnerHTMLOf(dom.nodes)) ELSE <<>>
      cleanText == Trim(ReplaceWsRuns(bodyText))
      cleanHTML == Trim(ReplaceWsRuns(bodyHTML))
  IN  \/ cleanText = <<>>
      \/ cleanHTML = <<>>
      \/ cleanText = <<" ">>
      \/ cleanHTML = <<" ">>
      \/ (body /\ Len(ChildrenOf(dom.nodes)) = 0)
      \/ (Len(cleanText) < BlankTextLimit /\ ~MatchAlphaRun(cleanText, 0))

\* lines 92-112: the blank-page test of the callback
IsBlankPage(dom) ==
  LET body == dom.hasBody
      bodyText == IF body THEN Trim(TextContentOf(dom.nodes)) ELSE <<>>
      bodyHTML == IF body THEN Trim(InnerHTMLOf(dom.nodes)) ELSE <<>>
      cleanText == Trim(ReplaceWsRuns(bodyText))
      cleanHTML == Trim(ReplaceWsRuns(bodyHTML))
  IN  \/ cleanText = <<>>
      \/ cleanHTML = <<>>
      \/ Len(cleanText) = 0
      \/ Len(cleanHTML) = 0
      \/ cleanText = <<" ">>
      \/ cleanHTML = <<" ">>
      \/ (body /\ Len(ChildrenOf(dom.nodes)) = 0)
      \/ (body /\ Len(ChildrenOf(dom.nodes)) = 1
            /\ Trim(ChildrenOf(dom.nodes)[1].data) = <<>>)
      \/ (Len(cleanText) < BlankTextLimit /\ ~MatchAlphaRun(cleanText, 0))

\* lines 114-126: the verdict the callback acts on
classify(dom) == IF IsBlankPage(dom) THEN "Blank" ELSE "Substantive"

\* -------------------------------------------------- documents that are served
Digits(n) == [i \in 1..n |-> "7"]

Texts == { <<>>,
           <<" ", "\n", " ">>,
           <<"a", "b">>,
           <<" ", "a", "b", "c">>,
           <<"o","k"," ","t","e","s","t","i","n","g"," ","1","2">>,
           <<"1","2"," ","3","4"," "," ","5","6","\t","7","8"," ","9","0">>,
           Digits(9), Digits(10), Digits(19), Digits(20) }

Nodes == {TextNode(t) : t \in Texts} \cup {Element("p", t) : t \in Texts}

RECURSIVE SeqsUpTo(_, _)
SeqsUpTo(S, n) ==
  IF n = 0 THEN {<<>>}
  ELSE LET shorter == SeqsUpTo(S, n - 1)
       IN  shorter \cup {Append(s, x) : s \in {t \in shorter : Len(t) = n - 1}, x \in S}

\* every document whose body has at most MaxNodes child nodes
AllDocs == {Document(b) : b \in SeqsUpTo(Nodes, MaxNodes)}

\* the documents served during a crawl of a whole tree
FewDocs == { Document(<<>>),
             Document(<<Element("p", <<" ", "a", "b", "c">>)>>) }

\* --------------------------------------------------------------- the remote
\* An entry of a list response: {path, ext?}.  ext = "" stands for an absent
\* ext (a folder).
FileEntry(path, ext) == [path |-> path, ext |-> ext]
FolderEntry(path) == [path |-> path, ext |-> ""]

Root == <<"/r">>
DirA == <<"/r", "/a">>
DirB == <<"/r", "/b">>
DirC == <<"/r", "/c">>
DirAB == <<"/r", "/a", "/b">>
FileX == FileEntry(<<"/r", "/x", ".html">>, "html")
FileAY == FileEntry(<<"/r", "/a", "/y", ".html">>, "html")
FileBX == FileEntry(<<"/r", "/b", "/x", ".html">>, "html")
FileBZ == FileEntry(<<"/r", "/b", "/z", ".json">>, "json")
FileABZ == FileEntry(<<"/r", "/a", "/b", "/z", ".json">>, "json")

\* A remote maps every folder path to the JSON array its listing returns.
TreeEmpty == (Root :> <<>>)
TreeOne == (Root :> <<FileX>>)
TreeMixed == (Root :> <<FileX, FolderEntry(DirA), FolderEntry(DirB)>>)
             @@ (DirA :> <<FileAY>>) @@ (DirB :> <<FileBZ, FileBX>>)
TreeDeep == (Root :> <<FolderEntry(DirA)>>)
            @@ (DirA :> <<FolderEntry(DirAB), FileAY>>) @@ (DirAB :> <<FileABZ>>)
TreeWide == (Root :> <<FolderEntry(DirA), FolderEntry(DirB), FolderEntry(DirC)>>)
            @@ (DirA :> <<>>) @@ (DirB :> <<FileBX>>) @@ (DirC :> <<>>)
Trees == {TreeEmpty, TreeOne, TreeMixed, TreeDeep, TreeWide}

\* A remote that is not a tree: one listing names the same folder twice.
ListingTwice == (Root :> <<FolderEntry(DirA), FolderEntry(DirA)>>)
                @@ (DirA :> <<FileAY>>)

\* -------------------------------------------------------------------- state
VARIABLES
  remote,        \* what list returns for each folder
  docs,          \* the documents source may return
  concurrent,    \* crawl's `concurrent` parameter
  folders,       \* crawl: the frontier array
  inProgress,    \* crawl: array of `true`, one per running expansion
  files,         \* crawl: the result array
  timer,         \* the interval is active (set, not cleared)
  results,       \* state of the `results` promise
  resolveCalls,  \* number of calls of resolve(files)
  expanded,      \* currentPath of every interval callback that popped, in order
  stage,         \* where each of those callbacks is
  calls,         \* one record per callback(child) invocation
  mainPc,        \* main: "await" at `await results`, then "reported"
  reported       \* the file count main printed

vars == <<remote, docs, concurrent, folders, inProgress, files, timer, results,
          resolveCalls, expanded, stage, calls, mainPc, reported>>

sched == <<folders, inProgress, files, timer, results, resolveCalls>>

InitCrawl ==
  /\ folders = <<Root>>
  /\ inProgress = <<>>
  /\ files = <<>>
  /\ timer = TRUE
  /\ results = "pending"
  /\ resolveCalls = 0
  /\ expanded = <<>>
  /\ stage = <<>>
  /\ calls = <<>>
  /\ mainPc = "await"
  /\ reported = -1

Init ==
  /\ remote \in Trees
  /\ docs = FewDocs
  /\ concurrent \in 1..MaxConcurrent
  /\ InitCrawl

\* ------------------------------------------------------------------- crawl
\* the termination check without the test of inProgress
TerminationCheck_FrontierOnly(ip, fs) ==
  IF Len(fs) = 0
  THEN /\ timer' = FALSE
       /\ results' = "fulfilled"
       /\ resolveCalls' = resolveCalls + 1
  ELSE UNCHANGED <<timer, results, resolveCalls>>

\* a termination check that also waits for the file callbacks
TerminationCheck_AwaitCallbacks(ip, fs) ==
  IF /\ Len(ip) = 0 /\ Len(fs) = 0
     /\ \A k \in 1..Len(calls) : calls[k].st \notin {"fetching", "reading", "publishing"}
  THEN /\ timer' = FALSE
       /\ results' = "fulfilled"
       /\ resolveCalls' = resolveCalls + 1
  ELSE UNCHANGED <<timer, results, resolveCalls>>

\* a termination check that resolves without clearInterval
TerminationCheck_NoClear(ip, fs) ==
  IF Len(ip) = 0 /\ Len(fs) = 0
  THEN /\ timer' = timer
       /\ results' = "fulfilled"
       /\ resolveCalls' = resolveCalls + 1
  ELSE UNCHANGED <<timer, results, resolveCalls>>

\* lines 63-66, evaluated on the arrays as the callback leaves them
TerminationCheck(ip, fs) ==
  IF Len(ip) = 0 /\ Len(fs) = 0
  THEN /\ timer' = FALSE
       /\ results' = "fulfilled"
       /\ resolveCalls' = resolveCalls + 1
  ELSE UNCHANGED <<timer, results, resolveCalls>>

\* an interval callback that reads the top of the frontier without popping it
Tick_Peek ==
  /\ timer
  /\ mainPc # "await"
  /\ IF Len(folders) > 0
     THEN /\ inProgress' = Append(inProgress, TRUE)
          /\ folders' = folders
          /\ expanded' = Append(expanded, folders[Len(folders)])
          /\ stage' = Append(stage, "fetching")
          /\ UNCHANGED <<timer, results, resolveCalls>>
     ELSE /\ TerminationCheck(inProgress, folders)
          /\ UNCHANGED <<folders, inProgress, expanded, stage>>
  /\ UNCHANGED <<remote, docs, concurrent, files, calls, mainPc, reported>>

\* an interval callback that takes the oldest entry (folders.shift())
Tick_Shift ==
  /\ timer
  /\ mainPc # "await"
  /\ IF Len(folders) > 0
     THEN /\ inProgress' = Append(inProgress, TRUE)
          /\ folders' = Tail(folders)
          /\ expanded' = Append(expanded, Head(folders))
          /\ stage' = Append(stage, "fetching")
          /\ UNCHANGED <<timer, results, resolveCalls>>
     ELSE /\ TerminationCheck(inProgress, folders)
          /\ UNCHANGED <<folders, inProgress, expanded, stage>>
  /\ UNCHANGED <<remote, docs, concurrent, files, calls, mainPc, reported>>

\* lines 34-41 and 63-66: one firing of the interval.  With a folder in the
\* frontier the callback pushes to inProgress, pops the folder and suspends
\* at the list fetch; otherwise it runs the termination check at once.
\* The first firing is a timer task, so it comes after main's pending
\* continuation (a microtask) has run.
Tick ==
  /\ timer
  /\ mainPc # "await"
  /\ IF Len(folders) > 0
     THEN /\ inProgress' = Append(inProgress, TRUE)
          /\ folders' = SubSeq(folders, 1, Len(folders) - 1)
          /\ expanded' = Append(expanded, folders[Len(folders)])
          /\ stage' = Append(stage, "fetching")
          /\ UNCHANGED <<timer, results, resolveCalls>>
     ELSE /\ TerminationCheck(inProgress, folders)
          /\ UNCHANGED <<folders, inProgress, expanded, stage>>
  /\ UNCHANGED <<remote, docs, concurrent, files, calls, mainPc, reported>>

\* the end of an interval callback whose catch block skips inProgress.pop()
FinishExpansion_NoPopOnThrow(i, how, fs) ==
  /\ stage' = [stage EXCEPT ![i] = how]
  /\ inProgress' = IF how = "throw" THEN inProgress
                   ELSE SubSeq(inProgress, 1, Len(inProgress) - 1)
  /\ folders' = fs
  /\ TerminationCheck(inProgress', fs)

\* the end of an interval callback that pops inProgress only inside `if (resp.ok)`
FinishExpansion_PopOnlyIfOk(i, how, fs) ==
  /\ stage' = [stage EXCEPT ![i] = how]
  /\ inProgress' = IF how = "ok" THEN SubSeq(inProgress, 1, Len(inProgress) - 1)
                   ELSE inProgress
  /\ folders' = fs
  /\ TerminationCheck(inProgress', fs)

\* line 60 then 63-66: the end of an interval callback that popped a folder
FinishExpansion(i, how, fs) ==
  /\ stage' = [stage EXCEPT ![i] = how]
  /\ inProgress' = SubSeq(inProgress, 1, Len(inProgress) - 1)
  /\ folders' = fs
  /\ TerminationCheck(inProgress', fs)

\* a callback without the endsWith test of line 80
StartCallback_NoExtTest(item) ==
  [item |-> item, st |-> "fetching", fetched |-> <<item.path>>, dom |-> <<>>,
   verdict |-> "none", published |-> <<>>]

\* lines 78-83: callback(child) runs up to its first await; fetched and
\* published are the paths of the GETs and POSTs to /source
StartCallback(item) ==
  IF item.path[Len(item.path)] # ".html"
  THEN [item |-> item, st |-> "notdoc", fetched |-> <<>>, dom |-> <<>>,
        verdict |-> "none", published |-> <<>>]
  ELSE [item |-> item, st |-> "fetching", fetched |-> <<item.path>>, dom |-> <<>>,
        verdict |-> "none", published |-> <<>>]

\* forEach without the test of child.ext: every child is recorded as a file
FilesIn_NoExtTest(json) == json

\* lines 44-54: what json.forEach appends to files and to folders, and the
\* callbacks it starts
FilesIn(json) == SelectSeq(json, LAMBDA child : child.ext # "")
FoldersIn(json) ==
  LET dirs == SelectSeq(json, LAMBDA child : child.ext = "")
  IN  [k \in 1..Len(dirs) |-> dirs[k].path]
\* forEach invoking the callback for every child, folders included
CallbacksFor_EveryChild(json) == [k \in 1..Len(json) |-> StartCallback(json[k])]

CallbacksFor(json) ==
  LET fl == FilesIn(json) IN [k \in 1..Len(fl) |-> StartCallback(fl[k])]

\* a list fetch whose response is used without the test of resp.ok
ListFetchReturn_NoOkTest(i) ==
  /\ i \in 1..Len(stage)
  /\ stage[i] = "fetching"
  /\ \/ /\ stage' = [stage EXCEPT ![i] = "reading"]
        /\ UNCHANGED <<folders, inProgress, timer, results, resolveCalls, files, calls>>
     \/ LET json == remote[expanded[i]]
        IN  /\ files' = files \o FilesIn(json)
            /\ calls' = calls \o CallbacksFor(json)
            /\ FinishExpansion(i, "notok", folders \o FoldersIn(json))
     \/ /\ FinishExpansion(i, "throw", folders)
        /\ UNCHANGED <<files, calls>>
  /\ UNCHANGED <<remote, docs, concurrent, expanded, mainPc, reported>>

\* lines 41-42, 56-58: the list fetch of expansion i settles
ListFetchReturn(i) ==
  /\ i \in 1..Len(stage)
  /\ stage[i] = "fetching"
  /\ \/ /\ stage' = [stage EXCEPT ![i] = "reading"]
        /\ UNCHANGED <<folders, inProgress, timer, results, resolveCalls>>
     \/ FinishExpansion(i, "notok", folders)
     \/ FinishExpansion(i, "throw", folders)
  /\ UNCHANGED <<remote, docs, concurrent, files, expanded, calls, mainPc, reported>>

\* a forEach that puts the files of a listing in front of the result array
ListJsonReturn_Unshift(i) ==
  /\ i \in 1..Len(stage)
  /\ stage[i] = "reading"
  /\ \/ LET json == remote[expanded[i]]
        IN  /\ files' = FilesIn(json) \o files
            /\ calls' = CallbacksFor(json) \o calls
            /\ FinishExpansion(i, "ok", folders \o FoldersIn(json))
     \/ /\ FinishExpansion(i, "throw", folders)
        /\ UNCHANGED <<files, calls>>
  /\ UNCHANGED <<remote, docs, concurrent, expanded, mainPc, reported>>

\* lines 43-60: resp.json() of expansion i settles
ListJsonReturn(i) ==
  /\ i \in 1..Len(stage)
  /\ stage[i] = "reading"
  /\ \/ LET json == remote[expanded[i]]
        IN  /\ files' = files \o FilesIn(json)
            /\ calls' = calls \o CallbacksFor(json)
            /\ FinishExpansion(i, "ok", folders \o FoldersIn(json))
     \/ /\ FinishExpansion(i, "throw", folders)
        /\ UNCHANGED <<files, calls>>
  /\ UNCHANGED <<remote, docs, concurrent, expanded, mainPc, reported>>

\* ---------------------------------------------------------------- callback
\* line 49: .catch(console.error) on the promise callback(child) returned
Rejected(c) == [c EXCEPT !.st = "rejected"]

\* a source fetch whose rejection is not caught: the process dies and the
\* interval with it
SourceFetchReturn_Unhandled(k) ==
  /\ k \in 1..Len(calls)
  /\ calls[k].st = "fetching"
  /\ \/ /\ calls' = [calls EXCEPT ![k].st = "reading"]
        /\ UNCHANGED timer
     \/ /\ calls' = [calls EXCEPT ![k].st = "notok"]
        /\ UNCHANGED timer
     \/ /\ calls' = [calls EXCEPT ![k] = Rejected(calls[k])]
        /\ timer' = FALSE
  /\ UNCHANGED <<remote, docs, concurrent, folders, inProgress, files, results,
                 resolveCalls, expanded, stage, mainPc, reported>>

\* lines 83-87: the source fetch of call k settles
SourceFetchReturn(k) ==
  /\ k \in 1..Len(calls)
  /\ calls[k].st = "fetching"
  /\ \/ calls' = [calls EXCEPT ![k].st = "reading"]
     \/ calls' = [calls EXCEPT ![k].st = "notok"]
     \/ calls' = [calls EXCEPT ![k] = Rejected(calls[k])]
  /\ UNCHANGED <<remote, docs, concurrent, sched, expanded, stage, mainPc, reported>>

\* a callback that does not return on a blank page
AfterText_AlwaysPublish(c, dom) ==
  [c EXCEPT !.st = "publishing", !.dom = <<dom>>, !.verdict = classify(dom),
            !.published = Append(c.published, c.item.path)]

\* lines 88-136: resp.text() settles; parse, classify, and POST if not blank
AfterText(c, dom) ==
  IF classify(dom) = "Blank"
  THEN [c EXCEPT !.st = "blank", !.dom = <<dom>>, !.verdict = "Blank"]
  ELSE [c EXCEPT !.st = "publishing", !.dom = <<dom>>, !.verdict = "Substantive",
                 !.published = Append(c.published, c.item.path)]

SourceTextReturn(k) ==
  /\ k \in 1..Len(calls)
  /\ calls[k].st = "reading"
  /\ \/ \E dom \in docs : calls' = [calls EXCEPT ![k] = AfterText(calls[k], dom)]
     \/ calls' = [calls EXCEPT ![k] = Rejected(calls[k])]
  /\ UNCHANGED <<remote, docs, concurrent, sched, expanded, stage, mainPc, reported>>

\* line 136: the POST of call k settles; its response is not looked at
PublishReturn(k) ==
  /\ k \in 1..Len(calls)
  /\ calls[k].st = "publishing"
  /\ \/ calls' = [calls EXCEPT ![k].st = "done"]
     \/ calls' = [calls EXCEPT ![k] = Rejected(calls[k])]
  /\ UNCHANGED <<remote, docs, concurrent, sched, expanded, stage, mainPc, reported>>

\* --------------------------------------------------------------------- main
\* line 140: crawl is an async function, so crawl(...) is a promise; the
\* destructuring reads the property `results` of that promise object.
CrawlCall == [isPromise |-> TRUE, value |-> [results |-> "resultsPromise"]]
Destructure(obj) == IF obj.isPromise THEN "undefined" ELSE obj.value.results

\* lines 141-142: `await results`, then the report
MainReport ==
  /\ mainPc = "await"
  /\ IF Destructure(CrawlCall) = "undefined"
     THEN reported' = 0
     ELSE /\ results = "fulfilled"
          /\ reported' = Len(files)
  /\ mainPc' = "reported"
  /\ UNCHANGED <<remote, docs, concurrent, sched, expanded, stage, calls>>

Next ==
  \/ MainReport
  \/ Tick
  \/ \E i \in 1..Len(stage) : ListFetchReturn(i)
  \/ \E i \in 1..Len(stage) : ListJsonReturn(i)
  \/ \E k \in 1..Len(calls) : SourceFetchReturn(k)
  \/ \E k \in 1..Len(calls) : SourceTextReturn(k)
  \/ \E k \in 1..Len(calls) : PublishReturn(k)

Spec == Init /\ [][Next]_vars

\* The timer keeps firing and every remote call settles.
Fairness ==
  /\ WF_vars(MainReport)
  /\ WF_vars(Tick)
  /\ WF_vars(\E i \in 1..Len(stage) : ListFetchReturn(i))
  /\ WF_vars(\E i \in 1..Len(stage) : ListJsonReturn(i))
  /\ WF_vars(\E k \in 1..Len(calls) : SourceFetchReturn(k))
  /\ WF_vars(\E k \in 1..Len(calls) : SourceTextReturn(k))
  /\ WF_vars(\E k \in 1..Len(calls) : PublishReturn(k))

FairSpec == Spec /\ Fairness

\* The same crawl against a remote whose listings need not form a tree.
InitAny ==
  /\ remote \in Trees \cup {ListingTwice}
  /\ docs = FewDocs
  /\ concurrent \in 1..MaxConcurrent
  /\ InitCrawl

SpecAny == InitAny /\ [][Next]_vars

\* The crawl of a folder holding one document, for every document.
InitClassify ==
  /\ remote = TreeOne
  /\ docs = AllDocs
  /\ concurrent \in 1..MaxConcurrent
  /\ InitCrawl

SpecClassify == InitClassify /\ [][Next]_vars

\* ------------------------------------------------------------ vocabulary
Range(seq) == {seq[i] : i \in 1..Len(seq)}
Occurrences(x, seq) == Cardinality({i \in 1..Len(seq) : seq[i] = x})

\* expansions that popped a folder and have not reached line 60
InFlight == {i \in 1..Len(stage) : stage[i] \in {"fetching", "reading"}}
Failed == {i \in 1..Len(stage) : stage[i] \in {"notok", "throw"}}
Resolved == results = "fulfilled"

\* ------------------------------------------------------------------ claims

\* C1: in every reachable state the number of folder expansions that have
\* started and not finished is at most concurrencyLimit.
C1_InFlightWithinLimit == Cardinality(InFlight) <= concurrent

\* the file entries reachable by recursively listing from a folder
RECURSIVE ReachableFiles(_, _)
ReachableFiles(tree, dir) ==
  LET listing == tree[dir]
      here == {listing[i] : i \in {j \in 1..Len(listing) : listing[j].ext # ""}}
      subdirs == {listing[i].path : i \in {j \in 1..Len(listing) : listing[j].ext = ""}}
  IN  here \cup UNION {ReachableFiles(tree, d) : d \in subdirs}

AllListsOk == \A i \in 1..Len(stage) : stage[i] = "ok"

\* C2: when the crawl resolves after only successful list calls, files holds
\* every file entry reachable from the root exactly once and nothing else.
C2_ResultIsReachableFiles ==
  (Resolved /\ AllListsOk) =>
     /\ Range(files) = ReachableFiles(remote, Root)
     /\ \A f \in Range(files) : Occurrences(f, files) = 1 /\ f.ext # ""

C2_Witness ==
  /\ Resolved /\ AllListsOk
  /\ Len(files) >= 3
  /\ Len(expanded) >= 3

\* C3: the crawl is resolved exactly in the states where the frontier is
\* empty and no expansion is executing (every handler ends with the check).
C3_ResolvedIffAtRest ==
  Resolved <=> (Len(folders) = 0 /\ InFlight = {})

C3_Witness ==
  /\ Resolved
  /\ Len(expanded) >= 3
  /\ Failed # {}

\* C4: with the timer firing and every remote call settling, the crawl
\* resolves, whatever the remote calls return.
C4_EventuallyResolves == <>Resolved

C4_Witness ==
  /\ Resolved
  /\ Len(stage) >= 3
  /\ \A i \in 2..Len(stage) : stage[i] \in {"notok", "throw"}

\* a remote is a tree when no path is listed twice and the root is not listed
ListedAt(r) == UNION {{<<d, i>> : i \in 1..Len(r[d])} : d \in DOMAIN r}
IsTree(r) ==
  \A e1 \in ListedAt(r) :
     /\ r[e1[1]][e1[2]].path # Root
     /\ \A e2 \in ListedAt(r) :
          e1 # e2 => r[e1[1]][e1[2]].path # r[e2[1]][e2[2]].path

FolderChildren(dir) ==
  {remote[dir][j].path : j \in {n \in 1..Len(remote[dir]) : remote[dir][n].ext = ""}}
FileChildren(dir) ==
  {remote[dir][j] : j \in {n \in 1..Len(remote[dir]) : remote[dir][n].ext # ""}}

\* every folder discovered through a successful listing has been expanded
DiscoveredAreExpanded ==
  /\ Root \in Range(expanded)
  /\ \A i \in 1..Len(stage) :
        stage[i] = "ok" => FolderChildren(expanded[i]) \subseteq Range(expanded)

ExpandedOnce ==
  /\ \A p \in Range(expanded) : Occurrences(p, expanded) = 1
  /\ \A i \in 1..Len(stage) : i \notin InFlight => expanded[i] \notin Range(folders)
  /\ Resolved => DiscoveredAreExpanded

\* C5 as stated: for any list responses, no path is expanded twice, a path is
\* not back in the frontier after its expansion completed, and at resolution
\* every folder reached through successful listings has been expanded.
C5_ExpandedOnceAnyRemote == ExpandedOnce

\* C5 amended: the same, for remotes whose listings form a tree.
C5_ExpandedOnceInTree == IsTree(remote) => ExpandedOnce

C5_Witness ==
  /\ IsTree(remote)
  /\ Resolved
  /\ Len(expanded) >= 3
  /\ Failed # {}

\* what C6 says of each failed expansion, and of the others at resolution
FailedFolderIsDropped ==
  /\ \A i \in Failed :
        /\ \A c \in Range(remote[expanded[i]]) :
              /\ c \notin Range(files)
              /\ c.path \notin Range(folders)
              /\ c.path \notin Range(expanded)
        /\ Occurrences(expanded[i], expanded) = 1
        /\ expanded[i] \notin Range(folders)
  /\ Len(inProgress) = Cardinality(InFlight)
  /\ Resolved =>
        /\ DiscoveredAreExpanded
        /\ \A i \in 1..Len(stage) :
              stage[i] = "ok" => FileChildren(expanded[i]) \subseteq Range(files)

\* C6: a folder whose list call failed contributes no file and no folder, is
\* not retried and holds no in-flight slot; the other folders are expanded
\* and their files recorded; the crawl resolves.
C6_FailedFolderSkipped == []FailedFolderIsDropped /\ <>Resolved

C6_Witness ==
  /\ Resolved
  /\ \E i \in Failed : Len(remote[expanded[i]]) > 0
  /\ \E i \in 1..Len(stage) : i > 1 /\ stage[i] = "ok" /\ Len(remote[expanded[i]]) > 0

RECURSIVE PublishedBy(_)
PublishedBy(cs) ==
  IF cs = <<>> THEN <<>> ELSE Head(cs).published \o PublishedBy(Tail(cs))

\* number of POSTs issued to a path so far
PublishCount(path) == Occurrences(path, PublishedBy(calls))

\* C7: publish is invoked exactly once for each file classified Substantive
\* and never for a file classified Blank.
C7_PublishOncePerSubstantive ==
  \A k \in 1..Len(calls) :
     /\ calls[k].verdict = "Substantive" => PublishCount(calls[k].item.path) = 1
     /\ calls[k].verdict = "Blank" => PublishCount(calls[k].item.path) = 0

C7_Witness ==
  /\ Resolved
  /\ \E k \in 1..Len(calls) : calls[k].verdict = "Substantive" /\ calls[k].st = "done"
  /\ \E k \in 1..Len(calls) : calls[k].verdict = "Blank"

\* --- the seven conditions of C8, from the features of the document
\* collapse runs of whitespace to a single space, then trim the ends
Collapsed(s) ==
  LET keep == {i \in 1..Len(s) : s[i] \notin Whitespace \/ i = 1 \/ s[i - 1] \notin Whitespace}
      pick[n \in 0..Len(s)] ==
        IF n = 0 THEN <<>>
        ELSE IF n \in keep
             THEN Append(pick[n - 1], IF s[n] \in Whitespace THEN " " ELSE s[n])
             ELSE pick[n - 1]
  IN  pick[Len(s)]
Normalized(s) ==
  LET c == Collapsed(s)
      a == IF c # <<>> /\ c[1] = " " THEN 2 ELSE 1
      b == IF c # <<>> /\ c[Len(c)] = " " THEN Len(c) - 1 ELSE Len(c)
  IN  SubSeq(c, a, b)
AllWhitespace(s) == \A i \in 1..Len(s) : s[i] \in Whitespace
HasAlphaRun(s) ==
  \E i \in 1..Len(s) : i + 2 <= Len(s) /\ \A j \in 0..2 : s[i + j] \in Alpha
ChildElements(dom) == {i \in 1..Len(dom.nodes) : dom.nodes[i].kind = "elem"}

SevenConditions(dom) ==
  LET text == Normalized(TextContentOf(dom.nodes))
      markup == Normalized(InnerHTMLOf(dom.nodes))
  IN  \/ text = <<>>
      \/ markup = <<>>
      \/ text = <<" ">>
      \/ markup = <<" ">>
      \/ ChildElements(dom) = {}
      \/ /\ Cardinality(ChildElements(dom)) = 1
         /\ \A i \in ChildElements(dom) : AllWhitespace(dom.nodes[i].data)
      \/ Len(text) < 20 /\ ~HasAlphaRun(text)

\* conditions one to six, to tell when only the seventh decides
FirstSix(dom) ==
  \/ Normalized(TextContentOf(dom.nodes)) = <<>>
  \/ ChildElements(dom) = {}
  \/ /\ Cardinality(ChildElements(dom)) = 1
     /\ \A i \in ChildElements(dom) : AllWhitespace(dom.nodes[i].data)

\* C8: the verdict of every classified document is Blank exactly when one of
\* the seven conditions holds, Substantive otherwise.
C8_BlankIffSevenConditions ==
  \A k \in 1..Len(calls) :
     calls[k].dom # <<>> =>
        /\ calls[k].verdict \in {"Blank", "Substantive"}
        /\ calls[k].verdict = "Blank" <=> SevenConditions(calls[k].dom[1])

C8_Witness ==
  \E k \in 1..Len(calls) :
     /\ calls[k].dom # <<>>
     /\ calls[k].verdict = "Blank"
     /\ ~FirstSix(calls[k].dom[1])

\* C9: main's report comes only once the crawl has resolved at rest, and the
\* count it prints is the number of entries of files.
C9_ReportAfterResolve ==
  mainPc = "reported" =>
     /\ Resolved
     /\ Len(folders) = 0 /\ InFlight = {}
     /\ reported = Len(files)

CallbackFails ==
  \E k \in 1..Len(calls) :
     /\ calls[k].st \notin {"rejected", "notok"}
     /\ calls'[k].st \in {"rejected", "notok"}

\* C10: a step in which a file callback fails (fetch not ok, or its promise
\* rejects) leaves the frontier, inProgress, files, the timer and the promise
\* as they were; and the crawl resolves.
C10_CallbackFailureIsolated ==
  /\ [][CallbackFails => UNCHANGED <<sched, expanded, stage>>]_vars
  /\ <>Resolved

C10_Witness ==
  /\ Resolved
  /\ remote = TreeMixed
  /\ Len(files) = 4
  /\ Len(expanded) = 3
  /\ calls[1].st = "rejected"
  /\ \E k \in 2..Len(calls) : calls[k].st = "rejected"

\* a step in which the interval callback popped a folder and issued its list call
ExpansionStarts == Len(expanded') = Len(expanded) + 1

\* C11: right after a scheduling attempt that started an expansion the
\* frontier is empty or the number of expansions in flight equals
\* concurrencyLimit (an attempt that starts nothing found the frontier empty).
C11_WorkConserving ==
  [][ExpansionStarts =>
        (Len(folders') = 0 \/ Cardinality(InFlight') = concurrent)]_vars

\* callbacks that are suspended at a remote call
Outstanding == {k \in 1..Len(calls) : calls[k].st \in {"fetching", "reading", "publishing"}}

\* C12: the crawl is resolved whenever the frontier is empty and no expansion
\* is in flight, whatever the file callbacks are doing; the witness is a
\* resolved crawl with a publish still to be issued and more outstanding
\* callbacks than concurrencyLimit.
C12_ResolveDoesNotAwaitCallbacks ==
  (Len(folders) = 0 /\ Len(inProgress) = 0) => Resolved

C12_Witness ==
  /\ Resolved
  /\ \E k \in Outstanding : calls[k].published = <<>>
  /\ Cardinality(Outstanding) > concurrent

\* C13: the callback invocations are, in order, the entries of files (so
\* their number is the length of files), none is for a folder child, and every
\* file child of a successful listing is in files exactly once.
C13_OnFilePerRecordedFile ==
  /\ Len(calls) = Len(files)
  /\ \A k \in 1..Len(calls) : calls[k].item = files[k] /\ calls[k].item.ext # ""
  /\ \A i \in 1..Len(stage) :
        stage[i] = "ok" =>
           \A f \in FileChildren(expanded[i]) : Occurrences(f, files) = 1

C13_Witness ==
  /\ Len(files) >= 3
  /\ \E i \in 1..Len(stage) :
        stage[i] = "ok" /\ FolderChildren(expanded[i]) # {} /\ FileChildren(expanded[i]) # {}

IsPrefix(a, b) == Len(a) <= Len(b) /\ SubSeq(b, 1, Len(a)) = a

\* C14: in every step the old files is a prefix of the new files, and once
\* the crawl has resolved files does not change.
C14_FilesAppendOnly ==
  [][IsPrefix(files, files') /\ (Resolved => files' = files)]_vars

C14_Witness ==
  /\ Resolved
  /\ Len(files) >= 3
  /\ \E k \in 1..Len(calls) : calls[k].st = "done"

\* what C15 says of one callback record
GuardedCall(c) ==
  /\ c.item.path[Len(c.item.path)] # ".html" => c.fetched = <<>> /\ c.published = <<>>
  /\ c.fetched \in {<<>>, <<c.item.path>>}
  /\ c.published # <<>> =>
        /\ c.published = <<c.item.path>>
        /\ c.fetched = <<c.item.path>>
        /\ c.dom # <<>>
        /\ c.verdict = "Substantive"
  /\ (c.st = "notok" \/ (c.st = "rejected" /\ c.dom = <<>>)) =>
        c.verdict = "none" /\ c.published = <<>>

\* a POST is issued only in the step that follows a successful source fetch
PublishFollowsFetch ==
  \A k \in 1..Len(calls) :
     calls'[k].published # calls[k].published =>
        calls[k].st = "reading" /\ calls[k].fetched = <<calls[k].item.path>>

\* C15: no GET and no POST for a path that does not end in .html; a POST only
\* after the GET of the same path succeeded and the document was classified
\* Substantive; no classification and no POST after a failed fetch.
C15_CallbackOrder ==
  [][(\A k \in 1..Len(calls') : GuardedCall(calls'[k])) /\ PublishFollowsFetch]_vars

C15_Witness ==
  /\ \E k \in 1..Len(calls) : calls[k].st = "notdoc"
  /\ \E k \in 1..Len(calls) : calls[k].st = "done" /\ calls[k].published # <<>>
  /\ \E k \in 1..Len(calls) : calls[k].st = "notok"

\* an expansion leaves the in-flight set in this step
ExpansionEnds ==
  \E i \in InFlight : stage'[i] \in {"ok", "notok", "throw"}

\* C16: after every step the length of inProgress is the number of expansions
\* started and not finished; a start adds one, and each of the three exits
\* takes one away.
C16_InProgressCountsInFlight ==
  [][/\ Len(inProgress') = Cardinality(InFlight')
     /\ ExpansionStarts => Len(inProgress') = Len(inProgress) + 1
     /\ ExpansionEnds => Len(inProgress') = Len(inProgress) - 1]_vars

C16_Witness ==
  /\ InFlight # {}
  /\ \E i \in 1..Len(stage) : stage[i] = "ok"
  /\ \E i \in 1..Len(stage) : stage[i] = "notok"
  /\ \E i \in 1..Len(stage) : stage[i] = "throw"

\* the paths of the folder children of a list response, in response order
RECURSIVE FolderPathsInOrder(_)
FolderPathsInOrder(json) ==
  IF json = <<>> THEN <<>>
  ELSE IF Head(json).ext = ""
       THEN <<Head(json).path>> \o FolderPathsInOrder(Tail(json))
       ELSE FolderPathsInOrder(Tail(json))

\* the expansion whose listing is processed in this step, if any
ListingProcessed == {i \in InFlight : stage'[i] = "ok"}

\* C17: the frontier is a stack with its top at the end: an expansion start
\* takes the last entry, which is the one pushed most recently among those
\* left, and leaves the others in place; a processed listing puts its folder
\* children at the end in response order; no other step touches the frontier.
C17_FrontierIsStack ==
  [][/\ ExpansionStarts =>
           /\ Len(folders) > 0
           /\ expanded'[Len(expanded')] = folders[Len(folders)]
           /\ folders' = SubSeq(folders, 1, Len(folders) - 1)
     /\ \A i \in ListingProcessed :
           folders' = folders \o FolderPathsInOrder(remote[expanded[i]])
     /\ (~ExpansionStarts /\ ListingProcessed = {}) => folders' = folders]_vars

C17_Witness ==
  /\ remote = TreeMixed
  /\ expanded = <<Root, DirB, DirA>>
  /\ stage[2] = "ok"

\* C18: resolve is called at most once, the interval is cleared with it, and
\* no step after it starts an expansion, issues a list call, changes the
\* frontier, inProgress or files, or resolves again.
C18_ResolvedIsFinal ==
  [][/\ resolveCalls' <= 1
     /\ (results' = "fulfilled") => ~timer'
     /\ Resolved => UNCHANGED <<sched, expanded, stage>>]_vars

C18_Witness ==
  /\ Resolved
  /\ resolveCalls = 1
  /\ ~timer
  /\ Len(expanded) >= 3
  /\ \E k \in 1..Len(calls) : calls[k].st = "done"
====
